---- MODULE Spec2Model ----
(***************************************************************************)
(* Nanaket CMS: the token authentication flow (credential store, token     *)
(* resolver, authorization gate, login/logout) and the article lifecycle,  *)
(* modelled from the handlers, the middleware, the route table and the SQL *)
(* queries and schema they run against.                                    *)
(***************************************************************************)
EXTENDS Integers, Sequences, FiniteSets, TLC

VARIABLES
    users,            \* ids of the rows of table users
    nextUserId,       \* next value of the users.id BIGSERIAL sequence
    access_tokens,    \* rows of table access_tokens
    articles,         \* rows of table articles, a function id -> row
    nextArticleId,    \* next value of the articles.id BIGSERIAL sequence
    now,              \* CURRENT_TIMESTAMP of the database
    pend,             \* requests that passed the route's middleware and wait for their handler
    last              \* the last operation and its HTTP response

vars == <<users, nextUserId, access_tokens, articles, nextArticleId, now, pend, last>>

store == <<users, nextUserId, access_tokens, articles, nextArticleId>>

-----------------------------------------------------------------------------
(* Bounds of the model *)

MaxClock == 2
MaxUserId == 2
MaxArticleId == 1
MaxInflight == 1

(* HTTP status codes used by the handlers (net/http) *)
StatusOK == 200
StatusCreated == 201
StatusNoContent == 204
StatusBadRequest == 400
StatusUnauthorized == 401
StatusNotFound == 404
StatusInternalServerError == 500

(* Login cookie lifetime, 60*60*24*7 seconds, and the logout cookie's MaxAge *)
LoginMaxAge == 604800
LogoutMaxAge == -1

CookieName == "auth_token"
UserContextKey == "user"

-----------------------------------------------------------------------------
(* Strings are sequences of characters.  Tokens, header values and cookie   *)
(* values are such sequences; the empty string is << >>.                    *)

TokX == <<"x">>
TokY == <<"y">>
Empty == << >>

Bearer(rest) == <<"B", "e", "a", "r", "e", "r">> \o rest

\* pgtype.Timestamp{Time, Valid}; a NULL column is Valid = FALSE
Timestamp(t) == [Valid |-> TRUE, Time |-> t]
NullTimestamp == [Valid |-> FALSE, Time |-> 0]

\* unicode.ToLower on the characters that occur in the headers of the model
ToLowerChar(c) ==
    CASE c = "B" -> "b"
      [] c = "E" -> "e"
      [] c = "A" -> "a"
      [] c = "R" -> "r"
      [] c = "S" -> "s"
      [] c = "I" -> "i"
      [] c = "C" -> "c"
      [] OTHER -> c

\* strings.ToLower
ToLower(s) == [i \in 1..Len(s) |-> ToLowerChar(s[i])]

\* unicode.IsSpace
IsSpace(c) == c \in {" ", "\t"}

\* strings.TrimSpace
RECURSIVE TrimLeft(_)
TrimLeft(s) == IF s # << >> /\ IsSpace(Head(s)) THEN TrimLeft(Tail(s)) ELSE s

RECURSIVE TrimRight(_)
TrimRight(s) ==
    IF s # << >> /\ IsSpace(s[Len(s)]) THEN TrimRight(SubSeq(s, 1, Len(s) - 1)) ELSE s

TrimSpace(s) == TrimRight(TrimLeft(s))

\* strings.SplitN(s, " ", 2): split at the first space, if there is one
SplitN2(s) ==
    LET idx == {i \in 1..Len(s) : s[i] = " "}
    IN  IF idx = {} THEN <<s>>
        ELSE LET i == CHOOSE j \in idx : \A k \in idx : j <= k
             IN  <<SubSeq(s, 1, i - 1), SubSeq(s, i + 1, Len(s))>>

-----------------------------------------------------------------------------
(* Token resolver *)

\* a variant that prefers the cookie whenever one is sent
extractToken_CookieFirst(r) ==
    IF r.cookie.Present /\ r.cookie.Value # Empty THEN r.cookie.Value
    ELSE LET parts == SplitN2(r.header)
         IN  IF r.header # Empty /\ Len(parts) = 2 /\ ToLower(parts[1]) = <<"b", "e", "a", "r", "e", "r">>
             THEN TrimSpace(parts[2]) ELSE Empty

\* a variant that reads the cookie only when no Authorization header is sent
extractToken_NoFallback(r) ==
    LET parts == SplitN2(r.header)
    IN  IF r.header # Empty
        THEN IF Len(parts) = 2 /\ ToLower(parts[1]) = <<"b", "e", "a", "r", "e", "r">>
             THEN TrimSpace(parts[2]) ELSE Empty
        ELSE IF r.cookie.Present /\ r.cookie.Value # Empty THEN r.cookie.Value ELSE Empty

\* a variant that turns to the cookie when the header's token is blank
extractToken_BlankFallsBack(r) ==
    LET parts == SplitN2(r.header)
        token == IF r.header # Empty /\ Len(parts) = 2
                      /\ ToLower(parts[1]) = <<"b", "e", "a", "r", "e", "r">>
                 THEN TrimSpace(parts[2])
                 ELSE Empty
    IN  IF token # Empty THEN token
        ELSE IF r.cookie.Present /\ r.cookie.Value # Empty THEN r.cookie.Value
        ELSE Empty

\* a variant that reads the Authorization header only
extractToken_HeaderOnly(r) ==
    LET parts == SplitN2(r.header)
    IN  IF r.header # Empty /\ Len(parts) = 2
             /\ ToLower(parts[1]) = <<"b", "e", "a", "r", "e", "r">>
        THEN TrimSpace(parts[2])
        ELSE Empty

\* r.header is r.Header.Get("Authorization") ("" when absent), r.cookie the
\* auth_token cookie (Present = FALSE when r.Cookie returns http.ErrNoCookie)
extractToken(r) ==
    LET parts == SplitN2(r.header)
    IN  IF r.header # Empty /\ Len(parts) = 2
             /\ ToLower(parts[1]) = <<"b", "e", "a", "r", "e", "r">>
        THEN TrimSpace(parts[2])
        ELSE IF r.cookie.Present /\ r.cookie.Value # Empty
             THEN r.cookie.Value
             ELSE Empty

-----------------------------------------------------------------------------
(* Credential store: the queries on access_tokens *)

NoUser == 0

ErrNil == "nil"
ErrNoRows == "sql.ErrNoRows"
ErrOther == "error"
ErrUnique == "unique_violation"

\* a variant of the query without the expiry condition
GetUserByToken_NoExpiry(token, fault) ==
    IF fault THEN [err |-> ErrOther, user |-> NoUser]
    ELSE LET rows == {t \in access_tokens : t.token = token /\ t.user_id \in users}
         IN  IF rows = {} THEN [err |-> ErrNoRows, user |-> NoUser]
             ELSE [err |-> ErrNil, user |-> (CHOOSE t \in rows : TRUE).user_id]

\* SELECT u.* FROM users u INNER JOIN access_tokens t ON u.id = t.user_id
\* WHERE t.token = $1 AND (t.expires_at IS NULL OR t.expires_at > CURRENT_TIMESTAMP) LIMIT 1;
\* fault: the query fails for a reason other than "no rows" (connection, timeout)
GetUserByToken(token, fault) ==
    IF fault THEN [err |-> ErrOther, user |-> NoUser]
    ELSE LET rows == {t \in access_tokens :
                         /\ t.token = token
                         /\ t.user_id \in users
                         /\ (~t.expires_at.Valid \/ t.expires_at.Time > now)}
         IN  IF rows = {} THEN [err |-> ErrNoRows, user |-> NoUser]
             ELSE [err |-> ErrNil, user |-> (CHOOSE t \in rows : TRUE).user_id]

-----------------------------------------------------------------------------
(* Responses.  Every operation leaves its request and response in last.    *)

NoCookie == [Present |-> FALSE, Value |-> Empty]
Cookie(v) == [Present |-> TRUE, Value |-> v]

\* no Set-Cookie header in the response
NoSetCookie == [Name |-> "", Value |-> Empty, Path |-> "", MaxAge |-> 0,
                HttpOnly |-> FALSE, Secure |-> FALSE, SameSite |-> ""]

NoRequest == [header |-> Empty, cookie |-> NoCookie]

NoCtx == [ok |-> FALSE, user |-> NoUser]

NoId == [ok |-> FALSE, val |-> 0]

NoBody == [ok |-> FALSE, user_id |-> 0, title |-> "", content |-> "",
           published_at |-> [present |-> FALSE, unix |-> 0]]

NoArticle == [user_id |-> 0, title |-> "", content |-> "",
              published_at |-> NullTimestamp, created_at |-> 0, updated_at |-> 0]

Response(op) ==
    [op |-> op, status |-> 0, msg |-> "", req |-> NoRequest, token |-> Empty,
     lookups |-> << >>, err |-> ErrNil, ctx |-> NoCtx, next |-> 0, user |-> NoUser,
     setCookie |-> NoSetCookie, id |-> NoId, prior |-> "", author |-> NoUser]

-----------------------------------------------------------------------------
(* Authorization gate: middleware.AuthMiddleware.  The outcome of one      *)
(* invocation: the response written (status 0: none written by the gate),  *)
(* the store lookups made, the context handed on and the number of times   *)
(* next.ServeHTTP is called.                                               *)

GateOutcome(status, msg, token, lookups, err, ctx, next) ==
    [status |-> status, msg |-> msg, token |-> token, lookups |-> lookups,
     err |-> err, ctx |-> ctx, next |-> next]

\* a variant that forgets to return after writing the error response
AuthMiddleware_FallThrough(r, fault) ==
    LET token == extractToken(r)
        res == GetUserByToken(token, fault)
    IN  IF token = Empty
        THEN GateOutcome(StatusUnauthorized, "Unauthorized: No token provided",
                         token, << >>, ErrNil, NoCtx, 1)
        ELSE IF res.err # ErrNil
             THEN GateOutcome(IF res.err = ErrNoRows THEN StatusUnauthorized
                                                     ELSE StatusInternalServerError,
                              IF res.err = ErrNoRows
                                  THEN "Unauthorized: Invalid or expired token"
                                  ELSE "Internal server error",
                              token, <<token>>, res.err, NoCtx, 1)
             ELSE GateOutcome(0, "", token, <<token>>, ErrNil,
                              [ok |-> TRUE, user |-> res.user], 1)

\* a variant that queries the store before it checks for an empty token
AuthMiddleware_LookupFirst(r, fault) ==
    LET token == extractToken(r)
        res == GetUserByToken(token, fault)
    IN  IF res.err # ErrNil
        THEN GateOutcome(IF res.err = ErrNoRows THEN StatusUnauthorized
                                                ELSE StatusInternalServerError,
                         IF res.err = ErrNoRows
                             THEN "Unauthorized: Invalid or expired token"
                             ELSE "Internal server error",
                         token, <<token>>, res.err, NoCtx, 0)
        ELSE GateOutcome(0, "", token, <<token>>, ErrNil,
                         [ok |-> TRUE, user |-> res.user], 1)

\* a variant whose test for the "no rows" error never matches, as with a
\* driver whose error is not sql.ErrNoRows: every lookup error becomes 500
AuthMiddleware_ErrNoRowsUnmatched(r, fault) ==
    LET token == extractToken(r)
    IN  IF token = Empty
        THEN GateOutcome(StatusUnauthorized, "Unauthorized: No token provided",
                         token, << >>, ErrNil, NoCtx, 0)
        ELSE LET res == GetUserByToken(token, fault)
             IN  IF res.err # ErrNil
                 THEN GateOutcome(StatusInternalServerError, "Internal server error",
                                  token, <<token>>, res.err, NoCtx, 0)
                 ELSE GateOutcome(0, "", token, <<token>>, ErrNil,
                                  [ok |-> TRUE, user |-> res.user], 1)

AuthMiddleware(r, fault) ==
    LET token == extractToken(r)
    IN  IF token = Empty
        THEN GateOutcome(StatusUnauthorized, "Unauthorized: No token provided",
                         token, << >>, ErrNil, NoCtx, 0)
        ELSE LET res == GetUserByToken(token, fault)
             IN  IF res.err # ErrNil
                 THEN IF res.err = ErrNoRows
                      THEN GateOutcome(StatusUnauthorized,
                                       "Unauthorized: Invalid or expired token",
                                       token, <<token>>, res.err, NoCtx, 0)
                      ELSE GateOutcome(StatusInternalServerError, "Internal server error",
                                       token, <<token>>, res.err, NoCtx, 0)
                 ELSE GateOutcome(0, "", token, <<token>>, ErrNil,
                                  [ok |-> TRUE, user |-> res.user], 1)

\* middleware.GetUserFromContext: the user and whether one is bound
GetUserFromContext(ctx) == <<ctx.user, ctx.ok>>

-----------------------------------------------------------------------------
(* Session boundary: handler.AuthHandler *)

LoginCookie(token) ==
    [Name |-> CookieName, Value |-> token, Path |-> "/", MaxAge |-> LoginMaxAge,
     HttpOnly |-> TRUE, Secure |-> TRUE, SameSite |-> "Strict"]

ClearCookie ==
    [Name |-> CookieName, Value |-> Empty, Path |-> "/", MaxAge |-> LogoutMaxAge,
     HttpOnly |-> TRUE, Secure |-> TRUE, SameSite |-> "Strict"]

LoginOutcome(status, msg, lookups, err, user, setCookie) ==
    [status |-> status, msg |-> msg, lookups |-> lookups, err |-> err,
     user |-> user, setCookie |-> setCookie]

\* a variant that sets the cookie before it validates the token
LoginHandler_CookieFirst(body, fault) ==
    IF ~body.ok
    THEN LoginOutcome(StatusBadRequest, "Invalid request body", << >>, ErrNil, NoUser, NoSetCookie)
    ELSE IF body.token = Empty
    THEN LoginOutcome(StatusBadRequest, "Token is required", << >>, ErrNil, NoUser, NoSetCookie)
    ELSE LET res == GetUserByToken(body.token, fault)
         IN  IF res.err # ErrNil
             THEN LoginOutcome(IF res.err = ErrNoRows THEN StatusUnauthorized
                                                      ELSE StatusInternalServerError,
                               IF res.err = ErrNoRows THEN "Invalid or expired token"
                                                      ELSE "Internal server error",
                               <<body.token>>, res.err, NoUser, LoginCookie(body.token))
             ELSE LoginOutcome(StatusOK, "Login successful", <<body.token>>, ErrNil,
                               res.user, LoginCookie(body.token))

\* body: the decoded LoginRequest (ok = FALSE: the JSON does not decode)
LoginHandler(body, fault) ==
    IF ~body.ok
    THEN LoginOutcome(StatusBadRequest, "Invalid request body", << >>, ErrNil, NoUser, NoSetCookie)
    ELSE IF body.token = Empty
    THEN LoginOutcome(StatusBadRequest, "Token is required", << >>, ErrNil, NoUser, NoSetCookie)
    ELSE LET res == GetUserByToken(body.token, fault)
         IN  IF res.err # ErrNil
             THEN IF res.err = ErrNoRows
                  THEN LoginOutcome(StatusUnauthorized, "Invalid or expired token",
                                    <<body.token>>, res.err, NoUser, NoSetCookie)
                  ELSE LoginOutcome(StatusInternalServerError, "Internal server error",
                                    <<body.token>>, res.err, NoUser, NoSetCookie)
             ELSE LoginOutcome(StatusOK, "Login successful", <<body.token>>, ErrNil,
                               res.user, LoginCookie(body.token))

\* a variant with sliding sessions: a successful login pushes the expiry of
\* the token's row one clock reading beyond the present
Login_Sliding(body, fault) ==
    LET o == LoginHandler(body, fault)
    IN  /\ last' = [Response("Login") EXCEPT
                        !.status = o.status, !.msg = o.msg, !.token = body.token,
                        !.lookups = o.lookups, !.err = o.err, !.user = o.user,
                        !.setCookie = o.setCookie]
        /\ access_tokens' =
               IF o.status = StatusOK
               THEN {IF t.token = body.token /\ t.expires_at.Valid
                     THEN [t EXCEPT !.expires_at = Timestamp(now + 2)] ELSE t :
                         t \in access_tokens}
               ELSE access_tokens
        /\ UNCHANGED <<users, nextUserId, articles, nextArticleId, now, pend>>

\* POST /api/v1/auth/login
Login(body, fault) ==
    LET o == LoginHandler(body, fault)
    IN  /\ last' = [Response("Login") EXCEPT
                        !.status = o.status, !.msg = o.msg, !.token = body.token,
                        !.lookups = o.lookups, !.err = o.err, !.user = o.user,
                        !.setCookie = o.setCookie]
        /\ UNCHANGED <<store, now, pend>>

\* what the client held before this request, as far as the last response tells
PriorSession ==
    IF last.op = "Login" /\ last.status = StatusOK THEN "logged in"
    ELSE IF last.op = "Logout" THEN "logged out"
    ELSE "no session"

\* a variant that refuses a request that carries no cookie
LogoutHandler_NeedsCookie(r) ==
    IF r.cookie.Present
    THEN [status |-> StatusOK, msg |-> "Logout successful", setCookie |-> ClearCookie]
    ELSE [status |-> StatusUnauthorized, msg |-> "Not logged in", setCookie |-> NoSetCookie]

LogoutHandler(r) ==
    [status |-> StatusOK, msg |-> "Logout successful", setCookie |-> ClearCookie]

\* a variant that also deletes the token row named by the cookie
Logout_Revoking(r) ==
    LET o == LogoutHandler(r)
    IN  /\ last' = [Response("Logout") EXCEPT
                        !.status = o.status, !.msg = o.msg, !.req = r,
                        !.setCookie = o.setCookie, !.prior = PriorSession]
        /\ access_tokens' = {t \in access_tokens : t.token # r.cookie.Value}
        /\ UNCHANGED <<users, nextUserId, articles, nextArticleId, now, pend>>

\* POST /api/v1/auth/logout
Logout(r) ==
    LET o == LogoutHandler(r)
    IN  /\ last' = [Response("Logout") EXCEPT
                        !.status = o.status, !.msg = o.msg, !.req = r,
                        !.setCookie = o.setCookie, !.prior = PriorSession]
        /\ UNCHANGED <<store, now, pend>>

-----------------------------------------------------------------------------
(* The database clock and the rows the handlers of this core do not write  *)
(* themselves: users (handler.UserHandler) and access tokens (issued and   *)
(* revoked through the generated queries).                                 *)

Tick ==
    /\ now < MaxClock
    /\ now' = now + 1
    /\ last' = Response("Tick")
    /\ UNCHANGED <<store, pend>>

\* POST /api/v1/users: INSERT INTO users ... RETURNING *, with a fresh email
\* and name; the id is drawn from the BIGSERIAL sequence
CreateUser ==
    /\ nextUserId <= MaxUserId
    /\ users' = users \cup {nextUserId}
    /\ nextUserId' = nextUserId + 1
    /\ last' = [Response("CreateUser") EXCEPT !.status = StatusCreated]
    /\ UNCHANGED <<access_tokens, articles, nextArticleId, now, pend>>

\* a variant on a schema whose access_tokens.user_id lacks ON DELETE CASCADE
\* and does not block the delete either: the user's tokens stay behind
DeleteUser_NoCascade(id) ==
    IF \E a \in DOMAIN articles : articles[a].user_id = id
    THEN /\ last' = [Response("DeleteUser") EXCEPT
                         !.status = StatusNotFound, !.msg = "User not found",
                         !.err = ErrOther, !.user = id]
         /\ UNCHANGED <<store, now, pend>>
    ELSE /\ users' = users \ {id}
         /\ last' = [Response("DeleteUser") EXCEPT !.status = StatusNoContent, !.user = id]
         /\ UNCHANGED <<nextUserId, access_tokens, articles, nextArticleId, now, pend>>

\* a variant on a schema without the foreign key from articles to users
DeleteUser_NoForeignKey(id) ==
    /\ users' = users \ {id}
    /\ access_tokens' = {t \in access_tokens : t.user_id # id}
    /\ last' = [Response("DeleteUser") EXCEPT !.status = StatusNoContent, !.user = id]
    /\ UNCHANGED <<nextUserId, articles, nextArticleId, now, pend>>

\* DELETE /api/v1/users/{id}: DELETE FROM users WHERE id = $1.
\* articles.user_id REFERENCES users(id) blocks the delete while an article
\* refers to the user; access_tokens.user_id is ON DELETE CASCADE
DeleteUser(id) ==
    IF \E a \in DOMAIN articles : articles[a].user_id = id
    THEN /\ last' = [Response("DeleteUser") EXCEPT
                         !.status = StatusNotFound, !.msg = "User not found",
                         !.err = ErrOther, !.user = id]
         /\ UNCHANGED <<store, now, pend>>
    ELSE /\ users' = users \ {id}
         /\ access_tokens' = {t \in access_tokens : t.user_id # id}
         /\ last' = [Response("DeleteUser") EXCEPT !.status = StatusNoContent, !.user = id]
         /\ UNCHANGED <<nextUserId, articles, nextArticleId, now, pend>>

\* a variant of the insert on a table without the UNIQUE constraint on token
InsertAccessToken_NoUnique(user_id, token, expires_at) ==
    IF user_id \notin users
    THEN [err |-> ErrOther, access_tokens |-> access_tokens]
    ELSE [err |-> ErrNil,
          access_tokens |-> access_tokens \cup
              {[user_id |-> user_id, token |-> token, expires_at |-> expires_at]}]

\* CreateAccessToken: INSERT INTO access_tokens (user_id, token, expires_at).
\* token is UNIQUE, user_id REFERENCES users(id)
InsertAccessToken(user_id, token, expires_at) ==
    IF \E t \in access_tokens : t.token = token
    THEN [err |-> ErrUnique, access_tokens |-> access_tokens]
    ELSE IF user_id \notin users
    THEN [err |-> ErrOther, access_tokens |-> access_tokens]
    ELSE [err |-> ErrNil,
          access_tokens |-> access_tokens \cup
              {[user_id |-> user_id, token |-> token, expires_at |-> expires_at]}]

\* the query is run (there is no HTTP route for it)
CreateAccessToken(user_id, token, expires_at) ==
    LET ins == InsertAccessToken(user_id, token, expires_at)
    IN  /\ access_tokens' = ins.access_tokens
        /\ last' = [Response("CreateAccessToken") EXCEPT !.err = ins.err]
        /\ UNCHANGED <<users, nextUserId, articles, nextArticleId, now, pend>>

\* a variant of the delete that reports "no rows" when nothing matches
RemoveAccessToken_MustExist(rows, token) ==
    IF \A t \in rows : t.token # token
    THEN [err |-> ErrNoRows, access_tokens |-> rows]
    ELSE [err |-> ErrNil, access_tokens |-> {t \in rows : t.token # token}]

\* DeleteAccessToken: DELETE FROM access_tokens WHERE token = $1 (:exec), on
\* the table rows; a statement that matches no row is not an error
RemoveAccessToken(rows, token) ==
    [err |-> ErrNil, access_tokens |-> {t \in rows : t.token # token}]

\* the query is run (logout does not call it)
DeleteAccessToken(token) ==
    LET del == RemoveAccessToken(access_tokens, token)
    IN  /\ access_tokens' = del.access_tokens
        /\ last' = [Response("DeleteAccessToken") EXCEPT !.err = del.err, !.token = token]
        /\ UNCHANGED <<users, nextUserId, articles, nextArticleId, now, pend>>

-----------------------------------------------------------------------------
(* Article lifecycle: handler.ArticleHandler over usecase, repository and  *)
(* the article queries.  A handler's outcome is its response and the table *)
(* it leaves: given the path id, the decoded body and whether the query    *)
(* fails for a reason of the storage layer (fault).  No handler reads the  *)
(* request context.                                                        *)

\* a variant of the required-fields check that forgets the author
RequiredFieldsMissing_NoAuthor(body) ==
    body.title = "" \/ body.content = ""

\* req.UserID == 0 || req.Title == "" || req.Content == ""
RequiredFieldsMissing(body) ==
    body.user_id = 0 \/ body.title = "" \/ body.content = ""

\* a variant that stamps a request without published_at with the current time
ToTimestamp_DefaultNow(p) == IF p.present THEN Timestamp(p.unix) ELSE Timestamp(now)

\* the conversion of *int64 published_at to pgtype.Timestamp
ToTimestamp(p) == IF p.present THEN Timestamp(p.unix) ELSE NullTimestamp

Outcome(status, msg, err, id, article, rows, nextId) ==
    [status |-> status, msg |-> msg, err |-> err, id |-> id, article |-> article,
     articles |-> rows, nextArticleId |-> nextId]

Unchanged(status, msg, err, id) ==
    Outcome(status, msg, err, id, NoArticle, articles, nextArticleId)

\* the row an insert writes: created_at and updated_at take their default,
\* CURRENT_TIMESTAMP
Row(body) ==
    [user_id |-> body.user_id, title |-> body.title, content |-> body.content,
     published_at |-> ToTimestamp(body.published_at), created_at |-> now,
     updated_at |-> now]

\* INSERT INTO articles (user_id, title, content, published_at) ... RETURNING *
\* The id is drawn from the BIGSERIAL sequence before the foreign key on
\* user_id is checked, so a rejected insert uses an id up.
InsertArticle(body, fault) ==
    IF fault
    THEN [err |-> ErrOther, id |-> 0, articles |-> articles, nextArticleId |-> nextArticleId]
    ELSE IF body.user_id \notin users
    THEN [err |-> ErrOther, id |-> 0, articles |-> articles,
          nextArticleId |-> nextArticleId + 1]
    ELSE [err |-> ErrNil, id |-> nextArticleId,
          articles |-> (nextArticleId :> Row(body)) @@ articles,
          nextArticleId |-> nextArticleId + 1]

\* POST /api/v1/articles
CreateArticle(body, fault) ==
    IF ~body.ok
    THEN Unchanged(StatusBadRequest, "Invalid request body", ErrNil, NoId)
    ELSE IF RequiredFieldsMissing(body)
    THEN Unchanged(StatusBadRequest, "UserID, title, and content are required", ErrNil, NoId)
    ELSE LET ins == InsertArticle(body, fault)
         IN  IF ins.err # ErrNil
             THEN Outcome(StatusInternalServerError, "Failed to create article", ins.err,
                          NoId, NoArticle, ins.articles, ins.nextArticleId)
             ELSE Outcome(StatusCreated, "", ErrNil, [ok |-> TRUE, val |-> ins.id],
                          ins.articles[ins.id], ins.articles, ins.nextArticleId)

\* SELECT * FROM articles WHERE id = $1 LIMIT 1 (:one), on the table rows
SelectArticle(rows, id, fault) ==
    IF fault THEN [err |-> ErrOther, article |-> NoArticle]
    ELSE IF id \notin DOMAIN rows THEN [err |-> ErrNoRows, article |-> NoArticle]
    ELSE [err |-> ErrNil, article |-> rows[id]]

\* a variant of the get handler that does not look at the error of the query
GetArticle_NoErrorCheck(id, fault) ==
    IF ~id.ok
    THEN Unchanged(StatusBadRequest, "Invalid article ID", ErrNil, id)
    ELSE LET sel == SelectArticle(articles, id.val, fault)
         IN  Outcome(StatusOK, "", ErrNil, id, sel.article, articles, nextArticleId)

\* GET /api/v1/articles/{id}
GetArticle(id, fault) ==
    IF ~id.ok
    THEN Unchanged(StatusBadRequest, "Invalid article ID", ErrNil, id)
    ELSE LET sel == SelectArticle(articles, id.val, fault)
         IN  IF sel.err # ErrNil
             THEN Unchanged(StatusNotFound, "Article not found", sel.err, id)
             ELSE Outcome(StatusOK, "", ErrNil, id, sel.article, articles, nextArticleId)

\* GET /api/v1/articles: SELECT * FROM articles ORDER BY id
ListArticles(fault) ==
    IF fault
    THEN Unchanged(StatusInternalServerError, "Failed to list articles", ErrOther, NoId)
    ELSE Unchanged(StatusOK, "", ErrNil, NoId)

\* a variant of the statement that keeps published_at when the request has
\* none (published_at = COALESCE($4, published_at))
UpdateArticleRow_KeepPublished(id, body, fault) ==
    IF fault THEN [err |-> ErrOther, articles |-> articles]
    ELSE IF id \notin DOMAIN articles THEN [err |-> ErrNoRows, articles |-> articles]
    ELSE IF body.user_id \notin users THEN [err |-> ErrOther, articles |-> articles]
    ELSE [err |-> ErrNil,
          articles |-> [articles EXCEPT ![id] =
                           [Row(body) EXCEPT
                                !.created_at = articles[id].created_at,
                                !.published_at = IF body.published_at.present
                                                 THEN ToTimestamp(body.published_at)
                                                 ELSE articles[id].published_at]]]

\* a variant of the statement that leaves a row alone, update timestamp
\* included, when every supplied value equals the stored one
UpdateArticleRow_SkipUnchanged(id, body, fault) ==
    IF fault THEN [err |-> ErrOther, articles |-> articles]
    ELSE IF id \notin DOMAIN articles THEN [err |-> ErrNoRows, articles |-> articles]
    ELSE IF body.user_id \notin users THEN [err |-> ErrOther, articles |-> articles]
    ELSE IF /\ articles[id].user_id = body.user_id
            /\ articles[id].title = body.title
            /\ articles[id].content = body.content
            /\ articles[id].published_at = ToTimestamp(body.published_at)
    THEN [err |-> ErrNil, articles |-> articles]
    ELSE [err |-> ErrNil,
          articles |-> [articles EXCEPT ![id] =
                           [Row(body) EXCEPT !.created_at = articles[id].created_at]]]

\* a variant of the statement that writes title and content before the
\* foreign key on the author is checked, and keeps them when the check fails
UpdateArticleRow_PartialOnError(id, body, fault) ==
    IF fault THEN [err |-> ErrOther, articles |-> articles]
    ELSE IF id \notin DOMAIN articles THEN [err |-> ErrNoRows, articles |-> articles]
    ELSE IF body.user_id \notin users
    THEN [err |-> ErrOther,
          articles |-> [articles EXCEPT ![id].title = body.title,
                                        ![id].content = body.content]]
    ELSE [err |-> ErrNil,
          articles |-> [articles EXCEPT ![id] =
                           [Row(body) EXCEPT !.created_at = articles[id].created_at]]]

\* a variant of the statement that merges the request into the row instead
\* of replacing it: the stored title is kept
UpdateArticleRow_MergeFields(id, body, fault) ==
    IF fault THEN [err |-> ErrOther, articles |-> articles]
    ELSE IF id \notin DOMAIN articles THEN [err |-> ErrNoRows, articles |-> articles]
    ELSE IF body.user_id \notin users THEN [err |-> ErrOther, articles |-> articles]
    ELSE [err |-> ErrNil,
          articles |-> [articles EXCEPT ![id] =
                           [Row(body) EXCEPT
                                !.created_at = articles[id].created_at,
                                !.title = articles[id].title]]]

\* UPDATE articles SET user_id, title, content, published_at,
\* updated_at = CURRENT_TIMESTAMP WHERE id = $5 RETURNING *
UpdateArticleRow(id, body, fault) ==
    IF fault THEN [err |-> ErrOther, articles |-> articles]
    ELSE IF id \notin DOMAIN articles THEN [err |-> ErrNoRows, articles |-> articles]
    ELSE IF body.user_id \notin users THEN [err |-> ErrOther, articles |-> articles]
    ELSE [err |-> ErrNil,
          articles |-> [articles EXCEPT ![id] =
                           [Row(body) EXCEPT !.created_at = articles[id].created_at]]]

\* a variant of the update handler without the required-fields check
UpdateArticle_NoValidation(id, body, fault) ==
    IF ~id.ok
    THEN Unchanged(StatusBadRequest, "Invalid article ID", ErrNil, id)
    ELSE IF ~body.ok
    THEN Unchanged(StatusBadRequest, "Invalid request body", ErrNil, id)
    ELSE LET upd == UpdateArticleRow(id.val, body, fault)
         IN  IF upd.err # ErrNil
             THEN Outcome(StatusNotFound, "Failed to update article", upd.err, id,
                          NoArticle, upd.articles, nextArticleId)
             ELSE Outcome(StatusOK, "", ErrNil, id, upd.articles[id.val],
                          upd.articles, nextArticleId)

\* PUT /api/v1/articles/{id}
UpdateArticle(id, body, fault) ==
    IF ~id.ok
    THEN Unchanged(StatusBadRequest, "Invalid article ID", ErrNil, id)
    ELSE IF ~body.ok
    THEN Unchanged(StatusBadRequest, "Invalid request body", ErrNil, id)
    ELSE IF RequiredFieldsMissing(body)
    THEN Unchanged(StatusBadRequest, "UserID, title, and content are required", ErrNil, id)
    ELSE LET upd == UpdateArticleRow(id.val, body, fault)
         IN  IF upd.err # ErrNil
             THEN Outcome(StatusNotFound, "Failed to update article", upd.err, id,
                          NoArticle, upd.articles, nextArticleId)
             ELSE Outcome(StatusOK, "", ErrNil, id, upd.articles[id.val],
                          upd.articles, nextArticleId)

\* DELETE /api/v1/articles/{id}: DELETE FROM articles WHERE id = $1 (:exec,
\* which reports no error when no row matches)
DeleteArticle(id, fault) ==
    IF ~id.ok
    THEN Unchanged(StatusBadRequest, "Invalid article ID", ErrNil, id)
    ELSE IF fault
    THEN Unchanged(StatusNotFound, "Article not found", ErrOther, id)
    ELSE Outcome(StatusNoContent, "", ErrNil, id, NoArticle,
                 [a \in DOMAIN articles \ {id.val} |-> articles[a]], nextArticleId)

-----------------------------------------------------------------------------
(* Inputs *)

HBearerX == Bearer(<<" ", "x">>)
HBearerY == Bearer(<<" ", "y">>)
HLowerY == <<"b", "e", "a", "r", "e", "r", " ", "y">>
HUpperX == <<"B", "E", "A", "R", "E", "R", " ", "x">>
HBearerZ == Bearer(<<" ", "z">>)
HBearerPadX == Bearer(<<" ", " ", "x", " ">>)
HBearerOnly == Bearer(<< >>)
HBearerBlank == Bearer(<<" ">>)
HBearerSpaces == Bearer(<<" ", " ", "\t">>)
HBearerTabX == Bearer(<<"\t", "x">>)
HBasicX == <<"B", "a", "s", "i", "c", " ", "x">>
HBasicOnly == <<"B", "a", "s", "i", "c">>

Request(h, c) == [header |-> h, cookie |-> c]

\* every header and cookie shape the properties range over
AllHeaders ==
    {Empty, HBearerX, HBearerY, HLowerY, HUpperX, HBearerZ, HBearerPadX, HBearerOnly,
     HBearerBlank, HBearerSpaces, HBearerTabX, HBasicX, HBasicOnly}
AllCookies == {NoCookie, Cookie(Empty), Cookie(TokX), Cookie(TokY)}
AllRequests == [header : AllHeaders, cookie : AllCookies]

TokenStrings == {TokX, TokY}
UserIds == 1..MaxUserId

Issue(u, t, e) == [user_id |-> u, token |-> t, expires_at |-> e]
LoginBody(t) == [ok |-> TRUE, token |-> t]
MalformedLogin == [ok |-> FALSE, token |-> Empty]

MalformedBody == NoBody
NilTime == [present |-> FALSE, unix |-> 0]
UnixTime(t) == [present |-> TRUE, unix |-> t]
Body(u, t, c, p) ==
    [ok |-> TRUE, user_id |-> u, title |-> t, content |-> c, published_at |-> p]
PathId(i) == [ok |-> TRUE, val |-> i]

\* every login body, article body and path id the properties range over
AllLoginBodies == {MalformedLogin} \cup {LoginBody(t) : t \in {Empty, TokX, TokY, <<"z">>}}
AllBodies ==
    {MalformedBody} \cup
    {Body(u, t, c, p) : u \in 0..MaxUserId, t \in {"", "A", "B"}, c \in {"", "C"},
                        p \in {NilTime, UnixTime(0), UnixTime(1)}}
AllPathIds == {NoId} \cup {PathId(i) : i \in 1..(MaxArticleId + 1)}

\* The requests that are sent.  in.requests go to the routes behind the
\* gate, in.open to the open routes, in.logout to logout, in.logins to
\* login; in.issues are the credential rows issued, in.bodies and in.ids
\* the article bodies and path ids.
AuthInputs ==
    [requests |-> {NoRequest, Request(HBearerX, Cookie(TokY)), Request(HBasicX, Cookie(TokY)),
                   Request(HBearerBlank, Cookie(TokY)), Request(Empty, Cookie(TokY))},
     open     |-> {NoRequest},
     logout   |-> {NoRequest, Request(Empty, Cookie(TokX))},
     logins   |-> {MalformedLogin, LoginBody(Empty), LoginBody(TokX), LoginBody(TokY)},
     issues   |-> {Issue(1, TokX, Timestamp(1)), Issue(1, TokX, NullTimestamp),
                   Issue(2, TokX, NullTimestamp), Issue(2, TokY, NullTimestamp)},
     bodies   |-> {Body(1, "A", "C", NilTime), Body(1, "", "C", NilTime)},
     ids      |-> {PathId(1)},
     inflight |-> MaxInflight]

ArticleInputs ==
    [requests |-> {NoRequest, Request(HBearerX, NoCookie)},
     open     |-> {NoRequest, Request(HBearerX, NoCookie)},
     logout   |-> {NoRequest},
     logins   |-> {LoginBody(TokX)},
     issues   |-> {Issue(1, TokX, NullTimestamp), Issue(2, TokX, Timestamp(1))},
     bodies   |-> {MalformedBody, Body(1, "", "C", NilTime), Body(1, "A", "", NilTime)} \cup
                  {Body(u, "A", "C", p) : u \in 0..MaxUserId, p \in {NilTime, UnixTime(1)}},
     ids      |-> AllPathIds,
     inflight |-> MaxInflight]

\* Two principals, each with a token of their own, send updates and deletes
\* of article 1 that are in flight together.
ConcurrentInputs ==
    [requests |-> {Request(HBearerX, NoCookie), Request(HBearerY, NoCookie)},
     open     |-> {NoRequest},
     logout   |-> {NoRequest},
     logins   |-> {LoginBody(TokY)},
     issues   |-> {Issue(1, TokX, NullTimestamp), Issue(2, TokY, Timestamp(1))},
     bodies   |-> {Body(1, "A", "C", NilTime), Body(2, "B", "C", UnixTime(1))},
     ids      |-> {PathId(1)},
     inflight |-> MaxInflight + 1]

\* the inputs a route's handler reads
RequestsFor(in, op) ==
    IF op \in {"CreateArticle", "ListArticles", "GetArticle"} THEN in.open ELSE in.requests
IdsFor(in, op) ==
    IF op \in {"GetArticle", "UpdateArticle", "DeleteArticle"} THEN in.ids ELSE {NoId}
BodiesFor(in, op) ==
    IF op \in {"CreateArticle", "UpdateArticle"} THEN in.bodies ELSE {NoBody}

-----------------------------------------------------------------------------
(* Routes: setupRoutes.  The article routes and which of them are wrapped  *)
(* in authMiddleware.                                                      *)

ArticleRoutes ==
    {"CreateArticle", "ListArticles", "GetArticle", "UpdateArticle", "DeleteArticle"}

\* a variant of the route table that registers the update route without the middleware
Protected_DeleteOnly(op) == op = "DeleteArticle"

Protected(op) == op \in {"UpdateArticle", "DeleteArticle"}

\* the handler registered for a route
Handler(op, id, body, fault) ==
    CASE op = "CreateArticle" -> CreateArticle(body, fault)
      [] op = "ListArticles"  -> ListArticles(fault)
      [] op = "GetArticle"    -> GetArticle(id, fault)
      [] op = "UpdateArticle" -> UpdateArticle(id, body, fault)
      [] op = "DeleteArticle" -> DeleteArticle(id, fault)

\* the author of the row a path id addresses, as stored when the request is handled
AuthorOf(id) ==
    IF id.ok /\ id.val \in DOMAIN articles THEN articles[id.val].user_id ELSE NoUser

\* a variant in which update and delete compare the bound principal with the
\* row's author and refuse when they differ
Handle_OwnerOnly(op, ctx, r, id, body, fault) ==
    LET o == IF /\ op \in {"UpdateArticle", "DeleteArticle"}
                /\ AuthorOf(id) # NoUser
                /\ GetUserFromContext(ctx)[1] # AuthorOf(id)
             THEN Unchanged(403, "Forbidden", ErrNil, id)
             ELSE Handler(op, id, body, fault)
    IN  /\ o.nextArticleId <= MaxArticleId + 1
        /\ articles' = o.articles
        /\ nextArticleId' = o.nextArticleId
        /\ last' = [Response(op) EXCEPT
                        !.status = o.status, !.msg = o.msg, !.err = o.err, !.id = o.id,
                        !.ctx = ctx, !.req = r, !.author = AuthorOf(id)]
        /\ UNCHANGED <<users, nextUserId, access_tokens, now>>

\* a variant in which update and delete look the principal's credentials up
\* again before they write, and refuse when none resolves any more
Handle_Recheck(op, ctx, r, id, body, fault) ==
    LET valid == \E t \in access_tokens :
                     /\ t.user_id = GetUserFromContext(ctx)[1]
                     /\ GetUserByToken(t.token, FALSE).err = ErrNil
        o == IF op \in {"UpdateArticle", "DeleteArticle"} /\ ~valid
             THEN Unchanged(StatusUnauthorized, "Unauthorized", ErrNil, id)
             ELSE Handler(op, id, body, fault)
    IN  /\ o.nextArticleId <= MaxArticleId + 1
        /\ articles' = o.articles
        /\ nextArticleId' = o.nextArticleId
        /\ last' = [Response(op) EXCEPT
                        !.status = o.status, !.msg = o.msg, !.err = o.err, !.id = o.id,
                        !.ctx = ctx, !.req = r, !.author = AuthorOf(id)]
        /\ UNCHANGED <<users, nextUserId, access_tokens, now>>

\* a variant in which a successful update records the bound principal as the
\* author instead of the user id of the request body
Handle_AuthorFromPrincipal(op, ctx, r, id, body, fault) ==
    LET h == Handler(op, id, body, fault)
        o == IF op = "UpdateArticle" /\ h.status = StatusOK
             THEN [h EXCEPT !.articles[id.val].user_id = GetUserFromContext(ctx)[1]]
             ELSE h
    IN  /\ o.nextArticleId <= MaxArticleId + 1
        /\ articles' = o.articles
        /\ nextArticleId' = o.nextArticleId
        /\ last' = [Response(op) EXCEPT
                        !.status = o.status, !.msg = o.msg, !.err = o.err, !.id = o.id,
                        !.ctx = ctx, !.req = r, !.author = AuthorOf(id)]
        /\ UNCHANGED <<users, nextUserId, access_tokens, now>>

\* The handler of route op runs on a request r whose context is ctx, which
\* no article handler reads.
Handle(op, ctx, r, id, body, fault) ==
    LET o == Handler(op, id, body, fault)
    IN  /\ o.nextArticleId <= MaxArticleId + 1
        /\ articles' = o.articles
        /\ nextArticleId' = o.nextArticleId
        /\ last' = [Response(op) EXCEPT
                        !.status = o.status, !.msg = o.msg, !.err = o.err, !.id = o.id,
                        !.ctx = ctx, !.req = r, !.author = AuthorOf(id)]
        /\ UNCHANGED <<users, nextUserId, access_tokens, now>>

\* A request arrives at an article route.  A route without the middleware
\* runs its handler at once; behind the middleware the gate answers or
\* hands the request, with its context, to the handler (next.ServeHTTP),
\* whose storage call is a later step.  fault: the one query of this step fails.
Serve(in, op, r, fault) ==
    IF Protected(op)
    THEN LET g == AuthMiddleware(r, fault)
             p == [op |-> op, ctx |-> g.ctx]
         IN  /\ g.next > 0 => p \notin pend /\ Cardinality(pend) < in.inflight
             /\ pend' = IF g.next > 0 THEN pend \cup {p} ELSE pend
             /\ last' = [Response("AuthMiddleware") EXCEPT
                             !.status = g.status, !.msg = g.msg, !.req = r,
                             !.token = g.token, !.lookups = g.lookups, !.err = g.err,
                             !.ctx = g.ctx, !.next = g.next]
             /\ UNCHANGED <<store, now>>
    ELSE /\ \E id \in IdsFor(in, op), body \in BodiesFor(in, op) :
                Handle(op, NoCtx, r, id, body, fault)
         /\ UNCHANGED pend

\* The handler of a request that passed the gate runs.
Run(p, id, body, fault) ==
    /\ p \in pend
    /\ Handle(p.op, p.ctx, NoRequest, id, body, fault)
    /\ pend' = pend \ {p}

-----------------------------------------------------------------------------
(* Specification *)

Init ==
    /\ users = {}
    /\ nextUserId = 1
    /\ access_tokens = {}
    /\ articles = [a \in {} |-> NoArticle]
    /\ nextArticleId = 1
    /\ now = 0
    /\ pend = {}
    /\ last = [op |-> "Init", status |-> 0, msg |-> "", req |-> NoRequest,
               token |-> Empty, lookups |-> << >>, err |-> ErrNil, ctx |-> NoCtx,
               next |-> 0, user |-> NoUser, setCookie |-> NoSetCookie, id |-> NoId,
               prior |-> "", author |-> NoUser]

Step(in) ==
    \/ Tick
    \/ CreateUser
    \/ \E id \in UserIds : DeleteUser(id)
    \/ \E i \in in.issues : CreateAccessToken(i.user_id, i.token, i.expires_at)
    \/ \E t \in TokenStrings : DeleteAccessToken(t)
    \/ \E body \in in.logins, fault \in BOOLEAN : Login(body, fault)
    \/ \E r \in in.logout : Logout(r)
    \/ \E op \in ArticleRoutes : \E r \in RequestsFor(in, op), fault \in BOOLEAN :
           Serve(in, op, r, fault)
    \/ \E p \in pend :
           \E id \in IdsFor(in, p.op), body \in BodiesFor(in, p.op), fault \in BOOLEAN :
               Run(p, id, body, fault)

Next == Step(AuthInputs)

Spec == Init /\ [][Next]_vars

NextArticles == Step(ArticleInputs)

SpecArticles == Init /\ [][NextArticles]_vars

NextConcurrent == Step(ConcurrentInputs)

SpecConcurrent == Init /\ [][NextConcurrent]_vars

-----------------------------------------------------------------------------
(* Properties of the token authentication flow *)

\* a credential row whose expiry is set and lies strictly before the clock
Expired(t) == t.expires_at.Valid /\ t.expires_at.Time < now

\* C1: in every reachable state, a token whose credential row has a non-null
\* expiry strictly in the past does not resolve: GetUserByToken reports "no
\* rows" (and never a user, whatever else fails), the gate rejects every
\* request whose candidate is that token with 401 without calling the
\* handler, and login with it answers 401 and sets no cookie.
C1_ExpiredTokenNeverAuthenticates ==
    \A t \in access_tokens :
        Expired(t) =>
            /\ GetUserByToken(t.token, FALSE) = [err |-> ErrNoRows, user |-> NoUser]
            /\ GetUserByToken(t.token, TRUE).err # ErrNil
            /\ \A r \in AllRequests :
                   extractToken(r) = t.token =>
                       LET g == AuthMiddleware(r, FALSE)
                       IN  /\ g.status = StatusUnauthorized
                           /\ g.next = 0
                           /\ g.ctx = NoCtx
            /\ LET o == LoginHandler(LoginBody(t.token), FALSE)
               IN  /\ o.status = StatusUnauthorized
                   /\ o.user = NoUser
                   /\ o.setCookie = NoSetCookie
            /\ (last.op \in {"Login", "AuthMiddleware"} /\ last.token = t.token) =>
                   /\ last.status \in {StatusUnauthorized, StatusInternalServerError}
                   /\ last.next = 0
                   /\ last.user = NoUser

\* a login with a token whose row expired at 1 is answered 401 at clock 2
C1_Witness ==
    \E t \in access_tokens :
        /\ Expired(t)
        /\ t.user_id \in users
        /\ last.op = "Login"
        /\ last.token = t.token
        /\ last.status = StatusUnauthorized
        /\ last.err = ErrNoRows

\* C2: the gate calls the downstream handler at most once per request, and
\* only when a non-empty token was extracted, its lookup succeeded and the
\* user found was bound into the context handed on; when no token is found,
\* the lookup finds no row or the lookup fails otherwise, the gate writes
\* 401 or 500 and does not call the handler.  Every request waiting for its
\* handler behind the gate carries a bound user.
C2_GateInvokesDownstreamOnlyWhenResolved ==
    /\ \A r \in AllRequests, fault \in BOOLEAN :
           LET g == AuthMiddleware(r, fault)
               token == extractToken(r)
               res == GetUserByToken(token, fault)
           IN  /\ g.next \in {0, 1}
               /\ g.next = 1 =>
                      /\ token # Empty
                      /\ g.lookups = <<token>>
                      /\ res.err = ErrNil
                      /\ res.user \in users
                      /\ GetUserFromContext(g.ctx) = <<res.user, TRUE>>
                      /\ g.status = 0
               /\ (token = Empty \/ res.err # ErrNil) =>
                      /\ g.next = 0
                      /\ GetUserFromContext(g.ctx) = <<NoUser, FALSE>>
                      /\ g.status = IF token # Empty /\ res.err = ErrOther
                                    THEN StatusInternalServerError
                                    ELSE StatusUnauthorized
    /\ \A p \in pend : p.ctx.ok /\ p.ctx.user \in 1..(nextUserId - 1)
    /\ last.op = "AuthMiddleware" =>
           /\ last.next = 0 <=> last.status # 0
           /\ last.next = 1 => [op |-> "UpdateArticle", ctx |-> last.ctx] \in pend
                               \/ [op |-> "DeleteArticle", ctx |-> last.ctx] \in pend

\* the gate answers 500 to a request whose lookup fails and does not hand it
\* on, while an earlier request that resolved waits for its handler
C2_Witness ==
    /\ last.op = "AuthMiddleware"
    /\ last.token # Empty
    /\ last.err = ErrOther
    /\ last.status = StatusInternalServerError
    /\ last.next = 0
    /\ Cardinality(pend) = 1
    /\ \A p \in pend : p.ctx.ok

\* an article row that exists before the step is changed or gone after it
RowModifiedOrRemoved ==
    \E a \in DOMAIN articles : a \notin DOMAIN articles' \/ articles'[a] # articles[a]

\* the step is the handler of an update or delete route running
WriteHandlerRuns == last'.op \in {"UpdateArticle", "DeleteArticle"}

\* create, get and list are served without the gate, and answer a request
\* without token with success when the input is valid
OpenRoutesSucceedWithoutToken ==
    /\ \A op \in {"CreateArticle", "GetArticle", "ListArticles"} : ~Protected(op)
    /\ \A body \in AllBodies :
           (body.ok /\ body.title # "" /\ body.content # "" /\ body.user_id \in users
                /\ extractToken(NoRequest) = Empty) =>
               CreateArticle(body, FALSE).status = StatusCreated
    /\ \A a \in DOMAIN articles : GetArticle(PathId(a), FALSE).status = StatusOK
    /\ ListArticles(FALSE).status = StatusOK
    /\ last.op \in {"CreateArticle", "GetArticle", "ListArticles"} =>
           /\ last.ctx = NoCtx
           /\ last.status # StatusUnauthorized

\* C3: an article row is modified or removed only by the update or delete
\* handler, and these run only for a request that passed the gate with a
\* user bound to its context; create, get and list are not behind the gate
\* and succeed for a request that carries no token.
C3_WritesRequirePrincipal ==
    /\ []OpenRoutesSucceedWithoutToken
    /\ [][(RowModifiedOrRemoved \/ WriteHandlerRuns) =>
              /\ last'.op \in {"UpdateArticle", "DeleteArticle"}
              /\ last'.ctx.ok
              /\ [op |-> last'.op, ctx |-> last'.ctx] \in pend
              /\ [op |-> last'.op, ctx |-> last'.ctx] \notin pend']_vars

\* a delete, run for a request with a bound user, has removed the only row
C3_Witness ==
    /\ last.op = "DeleteArticle"
    /\ last.status = StatusNoContent
    /\ last.ctx.ok
    /\ nextArticleId = 2
    /\ DOMAIN articles = {}

\* C4: the gate answers a request with neither an Authorization header nor
\* an auth_token cookie with 401 "Unauthorized: No token provided", makes no
\* lookup in the credential store and does not call the handler.
C4_NoTokenRejectedWithoutLookup ==
    /\ \A fault \in BOOLEAN :
           AuthMiddleware(NoRequest, fault) =
               GateOutcome(StatusUnauthorized, "Unauthorized: No token provided",
                           Empty, << >>, ErrNil, NoCtx, 0)
    /\ (last.op = "AuthMiddleware" /\ last.req = NoRequest) =>
           /\ last.status = StatusUnauthorized
           /\ last.msg = "Unauthorized: No token provided"
           /\ last.lookups = << >>
           /\ last.next = 0

\* the gate has rejected a request without header and cookie while the store
\* holds a token that resolves
C4_Witness ==
    /\ last.op = "AuthMiddleware"
    /\ last.req = NoRequest
    /\ last.status = StatusUnauthorized
    /\ last.lookups = << >>
    /\ \E t \in TokenStrings : GetUserByToken(t, FALSE).err = ErrNil

\* the token strings a well-formed "Bearer X" header is built from
HeaderTokens == {TokX, TokY, <<"z">>}

\* C5: for a request with a header "Bearer X" and an auth_token cookie of a
\* different value Y, the resolver returns X, and the gate looks up X only
\* and decides on X alone: the cookie's Y is not used, also when X does not
\* resolve and Y does.
C5_HeaderTakesPriority ==
    /\ \A x \in HeaderTokens, y \in {Empty, TokX, TokY} :
           x # y =>
               LET r == Request(Bearer(<<" ">> \o x), Cookie(y))
               IN  /\ r \in AllRequests
                   /\ extractToken(r) = x
                   /\ \A fault \in BOOLEAN :
                          LET g == AuthMiddleware(r, fault)
                              res == GetUserByToken(x, fault)
                          IN  /\ g.token = x
                              /\ g.lookups = <<x>>
                              /\ g.next = 1 <=> res.err = ErrNil
                              /\ g.next = 1 => g.ctx = [ok |-> TRUE, user |-> res.user]
    /\ (last.op = "AuthMiddleware" /\ last.req = Request(HBearerX, Cookie(TokY))) =>
           /\ last.token = TokX
           /\ last.lookups = <<TokX>>

\* the gate has rejected "Bearer x" with cookie y while x does not resolve
\* and y does
C5_Witness ==
    /\ last.op = "AuthMiddleware"
    /\ last.req = Request(HBearerX, Cookie(TokY))
    /\ last.lookups = <<TokX>>
    /\ last.status = StatusUnauthorized
    /\ last.next = 0
    /\ GetUserByToken(TokX, FALSE).err = ErrNoRows
    /\ GetUserByToken(TokY, FALSE).err = ErrNil

\* headers that are present but malformed: another scheme, or no token
MalformedHeaders == {HBasicX, HBasicOnly, HBearerOnly, HBearerBlank, HBearerSpaces}

\* C6 as stated: the resolver falls through to the cookie only when the
\* Authorization header is absent; for a header that is present but
\* malformed (wrong scheme, or missing token) the gate's candidate token is
\* not the cookie's value.
C6_CookieOnlyWhenHeaderAbsent ==
    (/\ last.op = "AuthMiddleware"
     /\ last.req.header \in MalformedHeaders
     /\ last.req.cookie.Present
     /\ last.req.cookie.Value # Empty) =>
        last.token # last.req.cookie.Value

\* the headers of the form "bearer", in any case, then a space, then the
\* rest; and the token each carries, its rest without surrounding blanks
BearerToken ==
    (HBearerX :> TokX) @@ (HBearerY :> TokY) @@ (HLowerY :> TokY) @@ (HUpperX :> TokX)
    @@ (HBearerZ :> <<"z">>) @@ (HBearerPadX :> TokX)
    @@ (HBearerBlank :> Empty) @@ (HBearerSpaces :> Empty)

\* C6 (amended): the resolver leaves the cookie aside exactly when the header
\* has the form "bearer <rest>" (scheme in any case, a space after it), and
\* then the candidate is <rest> trimmed, be it empty; for every other header,
\* absent or present (another scheme, or "Bearer" without a space after it),
\* the candidate is the cookie's value, empty when no cookie is sent.
C6_CookieUnlessBearerForm ==
    /\ \A r \in AllRequests :
           extractToken(r) = IF r.header \in DOMAIN BearerToken
                             THEN BearerToken[r.header]
                             ELSE IF r.cookie.Present THEN r.cookie.Value ELSE Empty
    /\ last.op = "AuthMiddleware" =>
           last.token = IF last.req.header \in DOMAIN BearerToken
                        THEN BearerToken[last.req.header]
                        ELSE last.req.cookie.Value

\* the gate has passed a request with header "Basic x" on its cookie y
C6_Witness ==
    /\ last.op = "AuthMiddleware"
    /\ last.req = Request(HBasicX, Cookie(TokY))
    /\ last.token = TokY
    /\ last.lookups = <<TokY>>
    /\ last.next = 1
    /\ last.ctx.ok

-----------------------------------------------------------------------------
(* Properties of login and logout *)

\* the users a token string resolves to: the owners of its rows that carry
\* no expiry or one that lies after the clock
Resolving(token) ==
    {t.user_id : t \in {x \in access_tokens :
                            /\ x.token = token
                            /\ (x.expires_at = NullTimestamp \/ x.expires_at.Time > now)}}

\* C7: login sets the auth_token cookie if and only if the supplied token
\* resolves; for a token of user U it answers 200 with user U and a cookie
\* whose value is the supplied token; for a token that is unknown or expired
\* it answers 401 and sets no cookie; for an empty token it answers 400, sets
\* no cookie and makes no lookup in the store.
C7_LoginSetsCookieIffTokenResolves ==
    /\ \A body \in AllLoginBodies, fault \in BOOLEAN :
           LET o == LoginHandler(body, fault)
               U == Resolving(body.token)
           IN  /\ o.setCookie # NoSetCookie <=> (body.ok /\ body.token # Empty /\ ~fault /\ U # {})
               /\ o.setCookie # NoSetCookie <=> o.status = StatusOK
               /\ (body.ok /\ body.token # Empty /\ ~fault /\ U # {}) =>
                      /\ o.status = StatusOK
                      /\ U = {o.user}
                      /\ o.user \in users
                      /\ o.setCookie.Name = "auth_token"
                      /\ o.setCookie.Value = body.token
                      /\ o.setCookie.MaxAge = 60 * 60 * 24 * 7
               /\ (body.ok /\ body.token # Empty /\ ~fault /\ U = {}) =>
                      /\ o.status = StatusUnauthorized
                      /\ o.user = NoUser
                      /\ o.setCookie = NoSetCookie
               /\ (body.ok /\ body.token = Empty) =>
                      /\ o.status = StatusBadRequest
                      /\ o.setCookie = NoSetCookie
                      /\ o.lookups = << >>
    /\ last.op = "Login" =>
           /\ last.setCookie # NoSetCookie <=> last.status = StatusOK
           /\ last.status = StatusOK =>
                  /\ last.setCookie.Value = last.token
                  /\ Resolving(last.token) = {last.user}

\* a login with token y of user 2 is answered 200 with user 2 and cookie y,
\* while token x belongs to user 1
C7_Witness ==
    /\ last.op = "Login"
    /\ last.status = StatusOK
    /\ last.token = TokY
    /\ last.user = 2
    /\ last.setCookie.Value = TokY
    /\ Resolving(TokX) = {1}

\* C8: logout answers 200 and sets the same clearing cookie (name auth_token,
\* empty value, negative MaxAge) for every request, with or without cookie,
\* whatever the session before it (logged in, never logged in, logged out);
\* two logouts in succession answer alike.
C8_LogoutIdempotent ==
    /\ [](/\ \A r \in AllRequests :
                LET o == LogoutHandler(r)
                IN  /\ o.status = StatusOK
                    /\ o.setCookie.Name = "auth_token"
                    /\ o.setCookie.Value = Empty
                    /\ o.setCookie.MaxAge < 0
                    /\ o.setCookie.Path = "/"
          /\ last.op = "Logout" =>
                /\ last.status = StatusOK
                /\ last.prior \in {"logged in", "logged out", "no session"}
                /\ last.setCookie.Name = "auth_token"
                /\ last.setCookie.Value = Empty
                /\ last.setCookie.MaxAge < 0)
    /\ [][(last.op = "Logout" /\ last'.op = "Logout") =>
              /\ last'.status = last.status
              /\ last'.setCookie = last.setCookie]_vars

\* a logout without cookie that follows a logout is answered 200
C8_Witness ==
    /\ last.op = "Logout"
    /\ last.prior = "logged out"
    /\ last.req = NoRequest
    /\ last.status = StatusOK
    /\ last.setCookie = ClearCookie

\* C9: a logout step leaves the rows of access_tokens (and of users) as they
\* are and revokes nothing: every token string resolves after the step to
\* what it resolved to before it, the token in the request's cookie included.
C9_LogoutKeepsCredentialStore ==
    [][last'.op = "Logout" =>
           /\ access_tokens' = access_tokens
           /\ users' = users
           /\ \A t \in TokenStrings \cup {last'.req.cookie.Value} :
                  GetUserByToken(t, FALSE)' = GetUserByToken(t, FALSE)]_vars

\* after a login, a logout with cookie x was answered, and x still resolves
\* and passes the gate in the Authorization header
C9_Witness ==
    /\ last.op = "Logout"
    /\ last.prior = "logged in"
    /\ last.req = Request(Empty, Cookie(TokX))
    /\ GetUserByToken(TokX, FALSE).err = ErrNil
    /\ AuthMiddleware(Request(HBearerX, NoCookie), FALSE).next = 1

-----------------------------------------------------------------------------
(* Properties of the article lifecycle *)

\* C10: a create whose title is empty, whose content is empty or whose
\* user_id is zero (unset) is answered 400, and the rows of articles (and
\* the id sequence) are the same after it as before.
C10_CreateRejectsMissingFields ==
    /\ [](\A body \in AllBodies, fault \in BOOLEAN :
             (body.ok /\ (body.title = "" \/ body.content = "" \/ body.user_id = 0)) =>
                 LET o == CreateArticle(body, fault)
                 IN  /\ o.status = StatusBadRequest
                     /\ o.articles = articles
                     /\ o.nextArticleId = nextArticleId)
    /\ [][(last'.op = "CreateArticle" /\ last'.status = StatusBadRequest) =>
              /\ articles' = articles
              /\ nextArticleId' = nextArticleId]_vars

\* a create was answered 400 for its missing fields while a row exists
C10_Witness ==
    /\ last.op = "CreateArticle"
    /\ last.status = StatusBadRequest
    /\ last.msg = "UserID, title, and content are required"
    /\ DOMAIN articles = {1}

\* every row of the table rows has a non-empty title and a non-empty content
TitledAndFilled(rows) ==
    \A a \in DOMAIN rows : rows[a].title # "" /\ rows[a].content # ""

\* C11: in every reachable state every article row has a non-empty title and
\* a non-empty content, and so has the table every create, update and delete
\* leaves, the rejected and failed ones included.
C11_RowsHaveTitleAndContent ==
    /\ TitledAndFilled(articles)
    /\ \A body \in AllBodies, fault \in BOOLEAN :
           /\ TitledAndFilled(CreateArticle(body, fault).articles)
           /\ \A id \in AllPathIds :
                  /\ TitledAndFilled(UpdateArticle(id, body, fault).articles)
                  /\ TitledAndFilled(DeleteArticle(id, fault).articles)

\* an update was rejected for its missing fields and the row is as it was
C11_Witness ==
    /\ last.op = "UpdateArticle"
    /\ last.status = StatusBadRequest
    /\ last.msg = "UserID, title, and content are required"
    /\ last.id = PathId(1)
    /\ 1 \in DOMAIN articles
    /\ TitledAndFilled(articles)

\* C12 as stated: once an article is Published (published_at set), no step
\* returns it to Draft (published_at unset) while the row exists.
C12_PublishedNeverReverts ==
    [][\A a \in DOMAIN articles :
           (articles[a].published_at.Valid /\ a \in DOMAIN articles') =>
               articles'[a].published_at.Valid]_vars

\* C12 (amended): the publication state of an existing article changes only
\* by a successful update of that article, and a successful update sets it
\* from the request: Published when the request carries published_at, Draft
\* when it carries none, whatever the state before; so an update without
\* published_at returns a Published article to Draft.
C12_PublicationStateFollowsUpdate ==
    /\ [](\A id \in AllPathIds, body \in AllBodies :
              LET o == UpdateArticle(id, body, FALSE)
              IN  o.status = StatusOK =>
                      o.articles[id.val].published_at.Valid = body.published_at.present)
    /\ [][\A a \in DOMAIN articles \cap DOMAIN articles' :
              articles'[a].published_at # articles[a].published_at =>
                  /\ last'.op = "UpdateArticle"
                  /\ last'.status = StatusOK
                  /\ last'.id = PathId(a)]_vars

\* a successful update has left article 1 a Draft
C12_Witness ==
    /\ last.op = "UpdateArticle"
    /\ last.status = StatusOK
    /\ last.id = PathId(1)
    /\ 1 \in DOMAIN articles
    /\ ~articles[1].published_at.Valid
    /\ articles[1].updated_at > articles[1].created_at

BodyOf(row) ==
    Body(row.user_id, row.title, row.content,
         IF row.published_at.Valid THEN UnixTime(row.published_at.Time) ELSE NilTime)

\* C14: every successful update of an article sets the row's update timestamp
\* to the clock reading of the update, which is never before the stored one
\* and is later whenever the clock has moved since the row was last written;
\* this holds also for an update whose title, content, author and publication
\* timestamp all equal the row's current values. Over any sequence of
\* operations the update timestamp of an article never decreases, and the
\* creation timestamp never changes.
C14_UpdateAdvancesTimestamp ==
    /\ [](\A a \in DOMAIN articles :
              LET o == UpdateArticle(PathId(a), BodyOf(articles[a]), FALSE)
              IN  /\ articles[a].created_at <= articles[a].updated_at
                  /\ articles[a].updated_at <= now
                  /\ o.status = StatusOK
                  /\ o.articles[a].updated_at = now
                  /\ now > articles[a].updated_at =>
                         /\ o.articles[a].updated_at > articles[a].updated_at
                         /\ o.articles # articles
                  /\ [o.articles[a] EXCEPT !.updated_at = articles[a].updated_at] = articles[a])
    /\ [][\A a \in DOMAIN articles \cap DOMAIN articles' :
              /\ articles'[a].updated_at >= articles[a].updated_at
              /\ articles'[a].created_at = articles[a].created_at
              /\ (/\ last'.op = "UpdateArticle"
                  /\ last'.status = StatusOK
                  /\ last'.id = PathId(a)) =>
                     /\ articles'[a].updated_at = now
                     /\ now > articles[a].updated_at =>
                            articles'[a].updated_at > articles[a].updated_at]_vars

\* article 1, stored at clock 1, was updated at clock 2
C14_Witness ==
    /\ last.op = "UpdateArticle"
    /\ last.status = StatusOK
    /\ last.id = PathId(1)
    /\ 1 \in DOMAIN articles
    /\ articles[1].created_at = 1
    /\ articles[1].updated_at = 2
    /\ articles[1].published_at = Timestamp(1)

\* C15: a delete of an article id that does not exist is answered with 404
\* and leaves the article store unchanged; a delete of an existing id is
\* answered with 204 and removes exactly that row and no other.
C15_DeleteAbsentIsNotFound ==
    \A id \in AllPathIds :
        id.ok =>
            LET o == DeleteArticle(id, FALSE)
            IN  IF id.val \in DOMAIN articles
                THEN /\ o.status = StatusNoContent
                     /\ DOMAIN o.articles = DOMAIN articles \ {id.val}
                     /\ \A a \in DOMAIN o.articles : o.articles[a] = articles[a]
                ELSE /\ o.status = StatusNotFound
                     /\ o.articles = articles

\* C16: whenever an article update fails (invalid id, malformed body, missing
\* required field, absent id or storage error), every article row has exactly
\* the field values it had before the call and no row is added or removed.
C16_FailedUpdateLeavesRows ==
    /\ [](\A id \in AllPathIds, body \in AllBodies, fault \in BOOLEAN :
              LET o == UpdateArticle(id, body, fault)
              IN  /\ o.status # StatusOK =>
                         /\ o.articles = articles
                         /\ o.nextArticleId = nextArticleId
                  /\ (\/ ~id.ok \/ ~body.ok \/ RequiredFieldsMissing(body)
                      \/ id.val \notin DOMAIN articles \/ fault
                      \/ body.user_id \notin users) => o.status # StatusOK)
    /\ [][(last'.op = "UpdateArticle" /\ last'.status # StatusOK) =>
              articles' = articles]_vars

\* an update of the existing article 1 failed in the store
C16_Witness ==
    /\ last.op = "UpdateArticle"
    /\ last.status = StatusNotFound
    /\ last.err = ErrOther
    /\ last.id = PathId(1)
    /\ 1 \in DOMAIN articles

\* C17: a get of an article id that no row has is answered with 404, and so
\* is an update of it with a well-formed, complete request; this includes an
\* id whose row was deleted, since a removed id is absent right after the
\* delete and ids are never handed out again. An id that a row has is always
\* found by get, which answers 200 with that row. (No storage failure.)
C17_AbsentIdIsNotFound ==
    /\ [](\A id \in AllPathIds :
              id.ok =>
                  LET g == GetArticle(id, FALSE)
                  IN  IF id.val \in DOMAIN articles
                      THEN /\ g.status = StatusOK
                           /\ g.article = articles[id.val]
                           /\ id.val < nextArticleId
                      ELSE /\ g.status = StatusNotFound
                           /\ g.err = ErrNoRows
                           /\ \A body \in AllBodies :
                                  (body.ok /\ ~RequiredFieldsMissing(body)) =>
                                      LET u == UpdateArticle(id, body, FALSE)
                                      IN  /\ u.status = StatusNotFound
                                          /\ u.articles = articles)
    /\ [][/\ nextArticleId' >= nextArticleId
          /\ \A a \in DOMAIN articles' \ DOMAIN articles : a >= nextArticleId
          /\ \A a \in DOMAIN articles \ DOMAIN articles' :
                 /\ last'.op = "DeleteArticle"
                 /\ last'.id = PathId(a)
                 /\ a < nextArticleId']_vars

\* id 1 has been handed out, no row has it, and a get of it was answered 404
C17_Witness ==
    /\ last.op = "GetArticle"
    /\ last.status = StatusNotFound
    /\ last.err = ErrNoRows
    /\ last.id = PathId(1)
    /\ nextArticleId = 2
    /\ DOMAIN articles = {}

\* C18: in every reachable state of the credential store at most one row
\* carries a given token string, so a token string resolves to at most one
\* user; an issue whose token string equals that of an existing row fails
\* with the uniqueness violation (Conflict) and leaves the store unchanged.
C18_TokenStringUnique ==
    /\ [](/\ \A tok \in TokenStrings :
                 /\ Cardinality({t \in access_tokens : t.token = tok}) <= 1
                 /\ Cardinality(Resolving(tok)) <= 1
          /\ \A t \in access_tokens, u \in 0..MaxUserId,
                e \in {NullTimestamp, Timestamp(0), Timestamp(1), Timestamp(MaxClock + 1)} :
                 LET ins == InsertAccessToken(u, t.token, e)
                 IN  /\ ins.err = ErrUnique
                     /\ ins.access_tokens = access_tokens)
    /\ [][/\ (last'.op = "CreateAccessToken" /\ last'.err # ErrNil) =>
                 access_tokens' = access_tokens
          /\ \A t \in access_tokens' \ access_tokens :
                 /\ last'.op = "CreateAccessToken"
                 /\ last'.err = ErrNil
                 /\ \A x \in access_tokens : x.token # t.token]_vars

\* with both token strings taken, a further issue ended in the violation
C18_Witness ==
    /\ last.op = "CreateAccessToken"
    /\ last.err = ErrUnique
    /\ {t.token : t \in access_tokens} = TokenStrings

\* C19: in the gate and in login, a lookup of a non-empty token that finds no
\* row, or only an expired one, is answered with 401, and a lookup that fails
\* in the store for another reason is answered with 500, whether or not the
\* token would have resolved; a 401 never reports a store failure and a 500
\* never a missing row; in both cases no principal is bound, the downstream
\* handler is not called and no cookie is set.
C19_NotFoundIs401FailureIs500 ==
    /\ \A r \in AllRequests, fault \in BOOLEAN :
           LET g == AuthMiddleware(r, fault)
               token == extractToken(r)
           IN  token # Empty =>
                   /\ fault =>
                          /\ g.status = StatusInternalServerError
                          /\ g.err = ErrOther
                   /\ (~fault /\ Resolving(token) = {}) =>
                          /\ g.status = StatusUnauthorized
                          /\ g.err = ErrNoRows
                   /\ (~fault /\ Resolving(token) # {}) =>
                          /\ g.status = 0
                          /\ g.ctx.ok
                          /\ g.ctx.user \in Resolving(token)
                   /\ g.status \in {StatusUnauthorized, StatusInternalServerError} =>
                          /\ g.ctx = NoCtx
                          /\ ~GetUserFromContext(g.ctx)[2]
                          /\ g.next = 0
    /\ \A body \in AllLoginBodies, fault \in BOOLEAN :
           LET o == LoginHandler(body, fault)
           IN  (body.ok /\ body.token # Empty) =>
                   /\ fault =>
                          /\ o.status = StatusInternalServerError
                          /\ o.err = ErrOther
                   /\ (~fault /\ Resolving(body.token) = {}) =>
                          /\ o.status = StatusUnauthorized
                          /\ o.err = ErrNoRows
                   /\ (~fault /\ Resolving(body.token) # {}) =>
                          /\ o.status = StatusOK
                          /\ o.user \in Resolving(body.token)
                   /\ o.status \in {StatusUnauthorized, StatusInternalServerError} =>
                          /\ o.user = NoUser
                          /\ o.setCookie = NoSetCookie
    /\ last.op \in {"AuthMiddleware", "Login"} =>
           /\ last.status = StatusInternalServerError <=> last.err = ErrOther
           /\ last.err = ErrNoRows => last.status = StatusUnauthorized
           /\ last.status \in {StatusUnauthorized, StatusInternalServerError} =>
                  /\ last.ctx = NoCtx
                  /\ last.next = 0
                  /\ last.setCookie = NoSetCookie

\* the gate answered 500 for a token that resolves, and bound no principal
C19_Witness ==
    /\ last.op = "AuthMiddleware"
    /\ last.status = StatusInternalServerError
    /\ last.err = ErrOther
    /\ last.token # Empty
    /\ Resolving(last.token) # {}
    /\ last.ctx = NoCtx
    /\ last.next = 0

\* C20: for get, update and delete of an article, a failure of the store
\* other than "no rows" (a transient error, a constraint violation) is
\* answered with 500; only the "no rows" error is answered with 404.
C20_StoreFailureIsInternal ==
    \A id \in AllPathIds, body \in AllBodies, fault \in BOOLEAN :
        LET g == GetArticle(id, fault)
            u == UpdateArticle(id, body, fault)
            d == DeleteArticle(id, fault)
        IN  /\ g.err = ErrOther => g.status = StatusInternalServerError
            /\ u.err = ErrOther => u.status = StatusInternalServerError
            /\ d.err = ErrOther => d.status = StatusInternalServerError
            /\ g.status = StatusNotFound => g.err = ErrNoRows
            /\ u.status = StatusNotFound => u.err = ErrNoRows
            /\ d.status = StatusNotFound => d.err = ErrNoRows

-----------------------------------------------------------------------------
(* Properties of requests in flight together *)

\* author, title, content and publication timestamp of a row are those of body
WrittenFrom(row, body) ==
    /\ row.user_id = body.user_id
    /\ row.title = body.title
    /\ row.content = body.content
    /\ row.published_at = ToTimestamp(body.published_at)

\* the update requests that have passed the gate and not yet written
UpdatesInFlight == {p \in pend : p.op = "UpdateArticle"}

\* C21: concurrent updates of one article are last-write-wins. In every
\* reachable state, whatever was written before and whatever else is in
\* flight, an update of an existing article with a complete request naming an
\* existing author succeeds and leaves the row with author, title, content
\* and publication timestamp of that request; and every applied update,
\* also one applied while another update is in flight, leaves the row
\* written entirely from one request, and the other rows as they were.
C21_LastWriteWins ==
    /\ [](\A id \in AllPathIds, body \in AllBodies :
              (/\ id.ok /\ id.val \in DOMAIN articles
               /\ body.ok /\ ~RequiredFieldsMissing(body)
               /\ body.user_id \in users) =>
                  LET o == UpdateArticle(id, body, FALSE)
                  IN  /\ o.status = StatusOK
                      /\ WrittenFrom(o.articles[id.val], body)
                      /\ \A a \in DOMAIN articles \ {id.val} : o.articles[a] = articles[a])
    /\ [][(last'.op = "UpdateArticle" /\ last'.status = StatusOK) =>
              /\ last'.id.val \in DOMAIN articles
              /\ \E body \in AllBodies : WrittenFrom(articles'[last'.id.val], body)
              /\ \A a \in DOMAIN articles \ {last'.id.val} : articles'[a] = articles[a]]_vars

\* the update of principal 1 was applied while the update of principal 2,
\* which had passed the gate as well, is still to write
C21_Witness ==
    /\ last.op = "UpdateArticle"
    /\ last.status = StatusOK
    /\ last.id = PathId(1)
    /\ last.ctx = [ok |-> TRUE, user |-> 1]
    /\ [op |-> "UpdateArticle", ctx |-> [ok |-> TRUE, user |-> 2]] \in UpdatesInFlight
    /\ articles[1].updated_at > articles[1].created_at

-----------------------------------------------------------------------------
(* Further properties of the token resolver and the credential store *)

\* the headers "Bearer " followed by nothing or by white space only
BlankBearerHeaders ==
    {h \in AllHeaders :
        /\ Len(h) >= 7
        /\ SubSeq(h, 1, 7) = <<"B", "e", "a", "r", "e", "r", " ">>
        /\ \A i \in 8..Len(h) : h[i] \in {" ", "\t"}}

\* C22: for an Authorization header "Bearer " followed by an empty or
\* white-space-only token the resolver returns the empty candidate whatever
\* cookie the request carries, and the gate answers 401 "Unauthorized: No
\* token provided" without a lookup, binds no principal and does not call the
\* handler, also when the auth_token cookie holds a token that resolves.
C22_BlankBearerIsNoToken ==
    /\ BlankBearerHeaders = {HBearerBlank, HBearerSpaces}
    /\ \A h \in BlankBearerHeaders, c \in AllCookies, fault \in BOOLEAN :
           LET r == Request(h, c)
               g == AuthMiddleware(r, fault)
           IN  /\ extractToken(r) = Empty
               /\ g.status = StatusUnauthorized
               /\ g.msg = "Unauthorized: No token provided"
               /\ g.lookups = << >>
               /\ g.ctx = NoCtx
               /\ g.next = 0
    /\ (last.op = "AuthMiddleware" /\ last.req.header \in BlankBearerHeaders) =>
           /\ last.status = StatusUnauthorized
           /\ last.msg = "Unauthorized: No token provided"
           /\ last.lookups = << >>

\* the gate rejected "Bearer " sent with a cookie whose token resolves
C22_Witness ==
    /\ last.op = "AuthMiddleware"
    /\ last.req = Request(HBearerBlank, Cookie(TokY))
    /\ Resolving(TokY) # {}
    /\ last.status = StatusUnauthorized
    /\ last.msg = "Unauthorized: No token provided"
    /\ last.next = 0

\* C23: for a request without Authorization header the resolver returns
\* exactly the value of the auth_token cookie when the cookie is sent and not
\* empty, and the empty candidate when the cookie is missing or empty; the
\* gate looks up that cookie value and no other, or answers 401 "No token
\* provided" without a lookup.
C23_CookieWhenNoHeader ==
    /\ \A c \in AllCookies, fault \in BOOLEAN :
           LET r == Request(Empty, c)
               g == AuthMiddleware(r, fault)
           IN  IF c.Present /\ c.Value # Empty
               THEN /\ extractToken(r) = c.Value
                    /\ g.token = c.Value
                    /\ g.lookups = <<c.Value>>
                    /\ (~fault /\ Resolving(c.Value) # {}) =>
                           g.next = 1 /\ g.ctx.user \in Resolving(c.Value)
               ELSE /\ extractToken(r) = Empty
                    /\ g.status = StatusUnauthorized
                    /\ g.msg = "Unauthorized: No token provided"
                    /\ g.lookups = << >>
                    /\ g.next = 0
    /\ (last.op = "AuthMiddleware" /\ last.req.header = Empty) =>
           last.token = (IF last.req.cookie.Present THEN last.req.cookie.Value ELSE Empty)

\* a request with the cookie alone passed the gate on the cookie's token
C23_Witness ==
    /\ last.op = "AuthMiddleware"
    /\ last.req = Request(Empty, Cookie(TokY))
    /\ last.token = TokY
    /\ last.lookups = <<TokY>>
    /\ last.next = 1
    /\ last.ctx.ok

\* the rows that carry a token string
RowsOf(token) == {t \in access_tokens : t.token = token}

\* C24: revoke is idempotent in effect. Revoking a token that no row carries
\* is not an error and leaves the store unchanged; revoking twice leaves the
\* store as revoking once does; a revoke removes the rows of that token and
\* no other; right after a revoke the token does not resolve, and a token
\* without a row gets one again only by a successful issue, so it does not
\* resolve in any later state until then.
C24_RevokeIdempotent ==
    /\ [](\A token \in TokenStrings \cup {<<"z">>} :
              LET once == RemoveAccessToken(access_tokens, token)
                  twice == RemoveAccessToken(once.access_tokens, token)
              IN  /\ once.err = ErrNil
                  /\ twice.err = ErrNil
                  /\ twice.access_tokens = once.access_tokens
                  /\ RowsOf(token) = {} => once.access_tokens = access_tokens
                  /\ once.access_tokens = access_tokens \ RowsOf(token)
                  /\ RowsOf(token) = {} =>
                         /\ Resolving(token) = {}
                         /\ GetUserByToken(token, FALSE) = [err |-> ErrNoRows, user |-> NoUser])
    /\ [][/\ last'.op = "DeleteAccessToken" =>
                 /\ last'.err = ErrNil
                 /\ access_tokens' = access_tokens \ RowsOf(last'.token)
                 /\ \A t \in access_tokens' : t.token # last'.token
                 /\ \A token \in TokenStrings :
                        last'.token = token =>
                            GetUserByToken(token, FALSE)' = [err |-> ErrNoRows, user |-> NoUser]
          /\ \A token \in TokenStrings :
                 (RowsOf(token) = {} /\ RowsOf(token)' # {}) =>
                     /\ last'.op = "CreateAccessToken"
                     /\ last'.err = ErrNil]_vars

\* a revoke of a token that no row carries went through without error while
\* the other token's row stayed
C24_Witness ==
    /\ last.op = "DeleteAccessToken"
    /\ last.token = TokX
    /\ last.err = ErrNil
    /\ RowsOf(TokX) = {}
    /\ RowsOf(TokY) # {}
    /\ GetUserByToken(TokX, FALSE).err = ErrNoRows

\* C25: no article handler compares the bound principal with the article's
\* author. Every update or delete that was handled for a bound principal and
\* an existing article, and met neither a validation nor a storage error,
\* succeeded, whoever the author was: the update answered 200 and wrote the
\* row, the delete answered 204 and removed it; and for every request in
\* flight and every article, the handler's outcome is success for a complete
\* request, also when the principal is not the author.
C25_NoOwnershipCheck ==
    /\ [](\A p \in pend, a \in DOMAIN articles :
              (p.ctx.ok /\ p.ctx.user # articles[a].user_id) =>
                  /\ p.op = "DeleteArticle" =>
                         LET o == Handler(p.op, PathId(a), NoBody, FALSE)
                         IN  o.status = StatusNoContent /\ a \notin DOMAIN o.articles
                  /\ p.op = "UpdateArticle" =>
                         \A body \in AllBodies :
                             (body.ok /\ ~RequiredFieldsMissing(body) /\ body.user_id \in users) =>
                                 LET o == Handler(p.op, PathId(a), body, FALSE)
                                 IN  o.status = StatusOK /\ o.articles[a].title = body.title)
    /\ [][(/\ last'.op \in {"UpdateArticle", "DeleteArticle"}
           /\ last'.author # NoUser
           /\ last'.err = ErrNil
           /\ last'.status # StatusBadRequest) =>
              /\ last'.ctx.ok
              /\ last'.id.val \in DOMAIN articles
              /\ articles[last'.id.val].user_id = last'.author
              /\ last'.op = "UpdateArticle" =>
                     /\ last'.status = StatusOK
                     /\ last'.id.val \in DOMAIN articles'
              /\ last'.op = "DeleteArticle" =>
                     /\ last'.status = StatusNoContent
                     /\ last'.id.val \notin DOMAIN articles']_vars

\* principal 2 has updated article 1, whose author was user 1
C25_Witness ==
    /\ last.op = "UpdateArticle"
    /\ last.status = StatusOK
    /\ last.id = PathId(1)
    /\ last.ctx = [ok |-> TRUE, user |-> 2]
    /\ last.author = 1
    /\ articles[1].title = "B"

\* the users some token resolves to
Principals == UNION {Resolving(token) : token \in TokenStrings}

\* C26: the gate's check and the handler's write are separate steps and the
\* check is not repeated. A request comes to be in flight only by a gate step
\* whose token resolved to its principal, and every applied update or delete
\* takes a request with a bound principal out of flight; but an update or
\* delete handled for a principal to whom no token resolves any more (token
\* revoked or expired, or the user removed, since the gate's check) is
\* applied all the same when it meets no validation or storage error.
C26_NoRecheckBeforeWrite ==
    /\ [](\A p \in pend : p.op \in {"UpdateArticle", "DeleteArticle"} /\ p.ctx.ok)
    /\ [][/\ \A p \in pend' \ pend :
                 /\ last'.op = "AuthMiddleware"
                 /\ last'.next = 1
                 /\ last'.ctx = p.ctx
                 /\ p.ctx.user \in Resolving(last'.token)
                 /\ access_tokens' = access_tokens
          /\ (last'.op \in {"UpdateArticle", "DeleteArticle"} /\ articles' # articles) =>
                 /\ [op |-> last'.op, ctx |-> last'.ctx] \in pend \ pend'
                 /\ last'.ctx.ok
          /\ (/\ last'.op \in {"UpdateArticle", "DeleteArticle"}
              /\ last'.ctx.user \notin Principals
              /\ last'.author # NoUser
              /\ last'.err = ErrNil
              /\ last'.status # StatusBadRequest) =>
                 /\ last'.status \in {StatusOK, StatusNoContent}
                 /\ last'.op = "UpdateArticle" =>
                        articles'[last'.id.val].updated_at = now
                 /\ last'.op = "DeleteArticle" =>
                        last'.id.val \notin DOMAIN articles']_vars

\* the delete of principal 1 was applied although no token resolves to
\* user 1 any more
C26_Witness ==
    /\ last.op = "DeleteArticle"
    /\ last.status = StatusNoContent
    /\ last.id = PathId(1)
    /\ last.author # NoUser
    /\ last.ctx = [ok |-> TRUE, user |-> 1]
    /\ 1 \notin Principals
    /\ RowsOf(TokX) = {}
    /\ 1 \notin DOMAIN articles

\* C27: a successful update sets the article's author to the user id of the
\* request body, whoever the bound principal and the previous author are.
\* For every existing article and complete request with author U the update
\* leaves a row that get reports with author U; and every applied update
\* leaves the row, author included, as one of the requests sent has it (in
\* these requests the title tells the author), and get answers with that row.
C27_AuthorFromRequestBody ==
    /\ [](\A id \in AllPathIds, body \in AllBodies :
              LET o == UpdateArticle(id, body, FALSE)
              IN  o.status = StatusOK =>
                      LET sel == SelectArticle(o.articles, id.val, FALSE)
                      IN  /\ sel.err = ErrNil
                          /\ sel.article.user_id = body.user_id
                          /\ body.user_id \in users)
    /\ [][(last'.op = "UpdateArticle" /\ last'.status = StatusOK) =>
              /\ \E body \in ConcurrentInputs.bodies :
                     WrittenFrom(articles'[last'.id.val], body)
              /\ \A i \in 1..MaxArticleId :
                     last'.id = PathId(i) =>
                         GetArticle(PathId(i), FALSE)'.article.user_id = articles'[i].user_id]_vars

\* principal 1 updated article 1 of author 1 with a request naming user 2:
\* get reports author 2
C27_Witness ==
    /\ last.op = "UpdateArticle"
    /\ last.status = StatusOK
    /\ last.id = PathId(1)
    /\ last.ctx = [ok |-> TRUE, user |-> 1]
    /\ last.author = 1
    /\ GetArticle(PathId(1), FALSE).status = StatusOK
    /\ GetArticle(PathId(1), FALSE).article.user_id = 2

-----------------------------------------------------------------------------
(* Referential integrity and frame properties *)

\* the users that are author of some article
Authors == {articles[a].user_id : a \in DOMAIN articles}

\* C28: in every reachable state every article's author is an existing user.
\* A create or an update of a complete request whose author id no user has
\* fails (create with 500, update with 404) and leaves the article rows as
\* they were; a delete of a user who is author of an article fails and leaves
\* users, articles and access tokens unchanged, so no author is ever removed.
C28_AuthorsExist ==
    /\ [](/\ Authors \subseteq users
          /\ \A body \in AllBodies :
                 (body.ok /\ ~RequiredFieldsMissing(body) /\ body.user_id \notin users) =>
                     /\ LET c == CreateArticle(body, FALSE)
                        IN  /\ c.status = StatusInternalServerError
                            /\ c.articles = articles
                     /\ \A id \in AllPathIds :
                            LET u == UpdateArticle(id, body, FALSE)
                            IN  /\ u.status = (IF id.ok THEN StatusNotFound ELSE StatusBadRequest)
                                /\ u.articles = articles)
    /\ [][/\ (users \ users') \cap Authors = {}
          /\ (last'.op = "DeleteUser" /\ last'.status # StatusNoContent) =>
                 /\ last'.status = StatusNotFound
                 /\ users' = users
                 /\ articles' = articles
                 /\ access_tokens' = access_tokens
          /\ (last'.op = "DeleteUser" /\ last'.user \in Authors) =>
                 /\ last'.status = StatusNotFound
                 /\ last'.user \in users']_vars

\* the delete of a user failed while user 1, who holds a token, is the author
\* of article 1
C28_Witness ==
    /\ last.op = "DeleteUser"
    /\ last.status = StatusNotFound
    /\ last.err = ErrOther
    /\ last.user = 1
    /\ 1 \in DOMAIN articles
    /\ articles[1].user_id = 1
    /\ 1 \in users
    /\ \E t \in access_tokens : t.user_id = 1

\* C29: deleting a user removes every access token of that user. No
\* access-token row ever refers to a user that does not exist; a successful
\* delete of a user leaves no row of that user, so that no token which
\* resolved to the user resolves afterwards: the lookup reports no rows, the
\* gate answers 401 for it and login answers 401 and sets no cookie; and it
\* leaves the rows of the other users as they were.
C29_UserDeletionRemovesTokens ==
    /\ []({t.user_id : t \in access_tokens} \subseteq users)
    /\ [][(last'.op = "DeleteUser" /\ last'.status = StatusNoContent) =>
              /\ last'.user \notin users'
              /\ access_tokens' = {t \in access_tokens : t.user_id # last'.user}
              /\ \A token \in TokenStrings :
                     last'.user \in Resolving(token) =>
                         /\ GetUserByToken(token, FALSE)' = [err |-> ErrNoRows, user |-> NoUser]
                         /\ LoginHandler(LoginBody(token), FALSE)'.status = StatusUnauthorized
                         /\ LoginHandler(LoginBody(token), FALSE)'.setCookie = NoSetCookie]_vars
    /\ [](\A token \in TokenStrings :
              GetUserByToken(token, FALSE).err = ErrNoRows =>
                  \A c \in AllCookies :
                      LET g == AuthMiddleware(Request(Bearer(<<" ">> \o token), c), FALSE)
                      IN  g.status = StatusUnauthorized /\ g.next = 0 /\ g.ctx = NoCtx)

\* user 1 was deleted while holding a token; token x has no row any more and
\* the other user's token still resolves
C29_Witness ==
    /\ last.op = "DeleteUser"
    /\ last.status = StatusNoContent
    /\ last.user = 1
    /\ nextUserId > 1
    /\ 1 \notin users
    /\ RowsOf(TokX) = {}
    /\ Resolving(TokY) = {2}

\* the operations that only read or only concern the session cookie
ReadOnlyOps == {"GetArticle", "ListArticles", "AuthMiddleware", "Login", "Logout"}

\* C30: get, list, the gate's token resolution (passed or rejected), login
\* (successful or failed) and logout leave the persistent state unchanged:
\* no user, access-token or article row is created, modified or deleted and
\* no id is handed out; in particular login adds no token row and leaves
\* every row's expiry as it was.
C30_ReadsAndSessionsKeepStore ==
    /\ [](\A id \in AllPathIds, fault \in BOOLEAN :
              /\ GetArticle(id, fault).articles = articles
              /\ GetArticle(id, fault).nextArticleId = nextArticleId
              /\ ListArticles(fault).articles = articles
              /\ ListArticles(fault).nextArticleId = nextArticleId)
    /\ [][last'.op \in ReadOnlyOps =>
              /\ users' = users
              /\ nextUserId' = nextUserId
              /\ access_tokens' = access_tokens
              /\ articles' = articles
              /\ nextArticleId' = nextArticleId
              /\ now' = now]_vars

\* a login succeeded with token x, whose single row kept its expiry
C30_Witness ==
    /\ last.op = "Login"
    /\ last.status = StatusOK
    /\ last.token = TokX
    /\ last.setCookie = LoginCookie(TokX)
    /\ access_tokens = {[user_id |-> 1, token |-> TokX, expires_at |-> Timestamp(1)]}
    /\ now = 0

====
